---- MODULE Spec2Model ----
(***************************************************************************)
(* A model of the tap orchestrator (tap_base/tap_base.py) and of the       *)
(* JSON Schema typing helpers (singer_sdk/typing.py).                      *)
(*                                                                         *)
(*   SpecTap    : two TapBase instances of one class in one process        *)
(*   SpecRender : a PropertiesList built, appended to and rendered         *)
(*   SpecBridge : to_jsonschema_type applied to a type name                *)
(***************************************************************************)
EXTENDS Integers, Sequences, FiniteSets, TLC

VARIABLES
    catalog,     \* tap -> self._catalog: [loaded |-> BOOLEAN, streams |-> Seq(entry)]
    streams,     \* TapBase._streams, the class attribute: an insertion-ordered dict
    env,         \* tap -> the catalog its catalog file holds and its discovery returns
    init_state,  \* tap -> the `state` argument its constructor was called with
    lastOp,      \* the last call made on a tap and what it returned or raised
    props,       \* PropertiesList.wrapped: the properties, with their Custom dicts
    supplied,    \* the same properties as they were when given to the list
    rendered,    \* to_dict() calls on the list since it was last changed: "no", "once", "again"
    firstOut,    \* what the first of these calls returned
    lastOut,     \* what the last of these calls returned
    from_type,   \* the argument of to_jsonschema_type: [kind, name]
    jsonschema,  \* what to_jsonschema_type returned or raised for it
    schema,      \* the argument of to_sql_type: a JSON Schema dict
    sqltype      \* the sqlalchemy type to_sql_type returned for it, "pending" before the call

tapVars == <<catalog, streams, env, init_state, lastOp>>

renderVars == <<props, supplied, rendered, firstOut, lastOut>>

bridgeVars == <<from_type, jsonschema, schema, sqltype>>

vars == <<catalog, streams, env, init_state, lastOp,
          props, supplied, rendered, firstOut, lastOut,
          from_type, jsonschema, schema, sqltype>>

(***************************************************************************)
(* Bounds                                                                  *)
(***************************************************************************)
MaxStreams == 2      \* longest catalog
MaxPersisted == 1    \* largest bookmark value of a persisted state
MaxBookmark == 2     \* a runtime is synchronized while its bookmark is below this
MaxCtorProps == 1    \* most properties given to the PropertiesList constructor
MaxProps == 2        \* most properties of a PropertiesList
MaxParts == 2        \* a type name is made of at most this many fragments
MaxTypes == 2        \* a schema's "type" list holds at most this many type names
MaxAnyOf == 2        \* a schema's "anyOf" list holds at most this many members

(***************************************************************************)
(* Generic helpers                                                         *)
(***************************************************************************)
Range(s) == {s[i] : i \in DOMAIN s}

NoDup(s) == \A i, j \in DOMAIN s : i # j => s[i] # s[j]

SeqsUpTo(S, n) == UNION {[1..k -> S] : k \in 0..n}

(***************************************************************************)
(* The part of the state a specification does not use stays as it starts   *)
(***************************************************************************)
NoOut == [obj |-> <<>>, props |-> <<>>]

\* to_jsonschema_type has not been called.
NotCalled == [err |-> "pending", dict |-> <<>>]

\* to_sql_type has not been called, and there is no schema to call it on.
SqlIdle ==
    /\ schema = <<>>
    /\ sqltype = "pending"

BridgeIdle ==
    /\ from_type = [kind |-> "str", name |-> <<>>]
    /\ jsonschema = NotCalled
    /\ SqlIdle

\* No list has been built.
RenderIdle ==
    /\ props = <<>>
    /\ supplied = <<>>
    /\ rendered = "no"
    /\ firstOut = NoOut
    /\ lastOut = NoOut

(***************************************************************************)
(* tap_base.py: the orchestrator                                           *)
(***************************************************************************)
Taps == {"A", "B"}

StreamIds == {"users", "orders"}

\* singer.CatalogEntry: the stream id and the selection flag.
CatalogEntry == [tap_stream_id : StreamIds, selected : BOOLEAN]

CatalogIds(entries) == [i \in DOMAIN entries |-> entries[i].tap_stream_id]

\* The catalogs a file or a discovery can give: ordered, unique by stream id.
Catalogs == {c \in SeqsUpTo(CatalogEntry, MaxStreams) : NoDup(CatalogIds(c))}

\* self._catalog = None
NoCatalog == [loaded |-> FALSE, streams |-> <<>>]

\* A state mapping: stream id -> bookmark value, 0 standing for no bookmark.
EmptyState == [s \in StreamIds |-> 0]

States == [StreamIds -> 0..MaxPersisted]

\* Python dict, insertion-ordered: a sequence of [key, rt] items.
DictKeys(d) == [i \in DOMAIN d |-> d[i].key]

DictHas(d, k) == \E i \in DOMAIN d : d[i].key = k

DictGet(d, k) == d[CHOOSE i \in DOMAIN d : d[i].key = k].rt

\* d[k] = v : an existing key keeps its position, a new key goes last.
DictSet(d, k, v) ==
    IF DictHas(d, k)
    THEN [i \in DOMAIN d |-> IF d[i].key = k THEN [key |-> k, rt |-> v] ELSE d[i]]
    ELSE Append(d, [key |-> k, rt |-> v])

\* The stream runtime's constructor: the bookmark it starts with comes from the
\* state it is given, empty when the state has no entry for the stream.
NewStream(tap_stream_id, catalog_entry, state) ==
    [entry |-> catalog_entry,
     initial |-> state[tap_stream_id],
     bookmark |-> state[tap_stream_id]]

\* stream.sync(): the runtime's bookmark advances.
StreamSync(rt) == [rt EXCEPT !.bookmark = @ + 1]

\* self._streams: no instance ever assigns the attribute, so the lookup finds the
\* class attribute, the one dict of the process.
self_streams(t) == streams

\* _init_stream: a new runtime is built and stored under its id.
InitStream(t, d, catalog_entry, state) ==
    DictSet(d, catalog_entry.tap_stream_id,
            NewStream(catalog_entry.tap_stream_id, catalog_entry, state))

RECURSIVE InitStreamsFrom(_, _, _, _)
InitStreamsFrom(t, d, entries, i) ==
    IF i > Len(entries) THEN d
    ELSE InitStreamsFrom(t, InitStream(t, d, entries[i], EmptyState), entries, i + 1)

\* _init_streams, the catalog being set: every entry of the catalog gets a new
\* runtime, built with state=None.
InitStreams(t, d, cat) == InitStreamsFrom(t, d, cat.streams, 1)

\* The taps of the model are configured with a catalog file that exists, and
\* their connection is discoverable: which branch runs is up to the arguments.
path_exists(t) == TRUE

is_discoverable(t) == TRUE

\* init_catalog's first half: the catalog after the load-or-discover attempt.
LoadedCatalog(t, allow_load, allow_discover) ==
    IF catalog[t].loaded THEN catalog[t]
    ELSE IF allow_load /\ path_exists(t)
         THEN [loaded |-> TRUE, streams |-> env[t]]
    ELSE IF allow_discover /\ is_discoverable(t)
         THEN [loaded |-> TRUE, streams |-> env[t]]
    ELSE catalog[t]

\* The allow_load and allow_discover arguments of a call on tap t: they are read
\* only while the catalog is not set, so a tap whose catalog is set is called
\* with the defaults.
Flags(t) ==
    IF catalog[t].loaded THEN {<<TRUE, FALSE>>} ELSE BOOLEAN \X BOOLEAN

\* init_catalog: the catalog and the class dict after the call.
InitCatalogStreams(t, cat) ==
    IF cat.loaded THEN InitStreams(t, self_streams(t), cat) ELSE streams

\* What init_catalog raises: _init_streams refuses a catalog that is not set.
InitCatalogErr(cat) == IF cat.loaded THEN "none" ELSE "RuntimeError"

\* The record of a call: the operation, the tap, the stream id sync_one was
\* given, what was raised, and the ids returned or synchronized, in order.
Op(op, t, arg, err, ids) ==
    [op |-> op, tap |-> t, arg |-> arg, err |-> err, ids |-> ids]

init_catalog(t) ==
    \E flags \in Flags(t) :
      LET cat == LoadedCatalog(t, flags[1], flags[2]) IN
        /\ catalog' = [catalog EXCEPT ![t] = cat]
        /\ streams' = InitCatalogStreams(t, cat)
        /\ lastOp' = Op("init_catalog", t, "", InitCatalogErr(cat), <<>>)
        /\ UNCHANGED <<env, init_state>>
        /\ UNCHANGED <<renderVars, bridgeVars>>

get_all_stream_ids(t) ==
    \E flags \in Flags(t) :
      LET cat == LoadedCatalog(t, flags[1], flags[2])
          d == InitCatalogStreams(t, cat)
      IN
        /\ catalog' = [catalog EXCEPT ![t] = cat]
        /\ streams' = d
        /\ lastOp' = Op("get_all_stream_ids", t, "", InitCatalogErr(cat),
                        IF cat.loaded THEN DictKeys(d) ELSE <<>>)
        /\ UNCHANGED <<env, init_state>>
        /\ UNCHANGED <<renderVars, bridgeVars>>

get_streams(t) ==
    \E flags \in Flags(t) :
      LET cat == LoadedCatalog(t, flags[1], flags[2])
          d == InitCatalogStreams(t, cat)
      IN
        /\ catalog' = [catalog EXCEPT ![t] = cat]
        /\ streams' = d
        /\ lastOp' = Op("get_streams", t, "", InitCatalogErr(cat),
                        IF cat.loaded THEN DictKeys(d) ELSE <<>>)
        /\ UNCHANGED <<env, init_state>>
        /\ UNCHANGED <<renderVars, bridgeVars>>

get_stream(t) ==
    \E tap_stream_id \in StreamIds, flags \in Flags(t) :
      LET cat == LoadedCatalog(t, flags[1], flags[2])
          d == InitCatalogStreams(t, cat)
      IN
        /\ catalog' = [catalog EXCEPT ![t] = cat]
        /\ streams' = d
        /\ lastOp' = Op("get_stream", t, "",
                        IF cat.loaded /\ ~DictHas(d, tap_stream_id)
                        THEN "KeyError" ELSE InitCatalogErr(cat),
                        <<>>)
        /\ UNCHANGED <<env, init_state>>
        /\ UNCHANGED <<renderVars, bridgeVars>>

\* sync_one: get_stream, then the stream's sync.
sync_one(t) ==
    \E tap_stream_id \in StreamIds, flags \in Flags(t) :
      LET cat == LoadedCatalog(t, flags[1], flags[2])
          d == InitCatalogStreams(t, cat)
      IN
        /\ catalog' = [catalog EXCEPT ![t] = cat]
        /\ IF ~cat.loaded
           THEN /\ streams' = d
                /\ lastOp' = Op("sync_one", t, tap_stream_id, "RuntimeError", <<>>)
           ELSE IF ~DictHas(d, tap_stream_id)
           THEN /\ streams' = d
                /\ lastOp' = Op("sync_one", t, tap_stream_id, "KeyError", <<>>)
           ELSE /\ DictGet(d, tap_stream_id).bookmark < MaxBookmark
                /\ streams' = DictSet(d, tap_stream_id,
                                      StreamSync(DictGet(d, tap_stream_id)))
                /\ lastOp' = Op("sync_one", t, tap_stream_id, "none", <<tap_stream_id>>)
        /\ UNCHANGED <<env, init_state>>
        /\ UNCHANGED <<renderVars, bridgeVars>>

\* sync_all: get_streams, then every item of the dict in its order.
sync_all(t) ==
    \E flags \in Flags(t) :
      LET cat == LoadedCatalog(t, flags[1], flags[2])
          d == InitCatalogStreams(t, cat)
      IN
        /\ catalog' = [catalog EXCEPT ![t] = cat]
        /\ IF ~cat.loaded
           THEN /\ streams' = d
                /\ lastOp' = Op("sync_all", t, "", "RuntimeError", <<>>)
           ELSE /\ \A i \in DOMAIN d : d[i].rt.bookmark < MaxBookmark
                /\ streams' = [i \in DOMAIN d |->
                                 [key |-> d[i].key, rt |-> StreamSync(d[i].rt)]]
                /\ lastOp' = Op("sync_all", t, "", "none", DictKeys(d))
        /\ UNCHANGED <<env, init_state>>
        /\ UNCHANGED <<renderVars, bridgeVars>>

\* TapBase.__init__ for each tap: no catalog yet, the class dict is empty, and
\* every tap of the process is given the process's persisted state.
InitTap ==
    /\ catalog = [t \in Taps |-> NoCatalog]
    /\ streams = <<>>
    /\ env \in [Taps -> Catalogs]
    /\ \E st \in States : init_state = [t \in Taps |-> st]
    /\ lastOp = Op("none", "A", "", "none", <<>>)
    /\ RenderIdle
    /\ BridgeIdle

NextTap ==
    \E t \in Taps :
        \/ init_catalog(t)
        \/ get_all_stream_ids(t)
        \/ get_streams(t)
        \/ get_stream(t)
        \/ sync_one(t)
        \/ sync_all(t)

SpecTap == InitTap /\ [][NextTap]_vars

\* No tap has been constructed with a catalog or a state.
TapIdle ==
    /\ catalog = [t \in Taps |-> NoCatalog]
    /\ streams = <<>>
    /\ env = [t \in Taps |-> <<>>]
    /\ init_state = [t \in Taps |-> EmptyState]
    /\ lastOp = Op("none", "A", "", "none", <<>>)

(***************************************************************************)
(* singer_sdk/typing.py: type helpers and their rendering                  *)
(*                                                                         *)
(* A JSON Schema dict is a function from its keys to their values.  The    *)
(* value of "type" is either one type name or a list of type names:        *)
(* [list |-> FALSE, vals |-> <<name>>] or [list |-> TRUE, vals |-> names]. *)
(* An optional Python value is <<>> for None and <<v>> for the value v.    *)
(***************************************************************************)
Scalar(x) == [list |-> FALSE, vals |-> <<x>>]

List(xs) == [list |-> TRUE, vals |-> xs]

None == <<>>

Some(v) == <<v>>

\* dict.update({k: v}) and dict[k] = v
DictUpdate(d, k, v) == [x \in DOMAIN d \cup {k} |-> IF x = k THEN v ELSE d[x]]

\* The type_dict of the primitive type classes.
StringType_type_dict == [type |-> List(<<"string">>)]

DateTimeType_type_dict == [type |-> List(<<"string">>), format |-> "date-time"]

DateType_type_dict == [type |-> List(<<"string">>), format |-> "date"]

BooleanType_type_dict == [type |-> List(<<"boolean">>)]

IntegerType_type_dict == [type |-> List(<<"integer">>)]

NumberType_type_dict == [type |-> List(<<"number">>)]

\* The type helpers: a primitive class, ArrayType(wrapped_type),
\* ObjectType(*properties) and CustomType(jsonschema_type_dict).
StringType == [kind |-> "string"]

IntegerType == [kind |-> "integer"]

ArrayType(wrapped_type) == [kind |-> "array", wrapped_type |-> wrapped_type]

ObjectType(properties) == [kind |-> "object", wrapped |-> properties]

CustomType(jsonschema_type_dict) == [kind |-> "custom", raw |-> jsonschema_type_dict]

\* Property.__init__
Property(name, wrapped, required, default, description) ==
    [name |-> name, wrapped |-> wrapped, optional |-> ~required,
     default |-> default, description |-> description]

\* Python truth of an optional number and of an optional string.
TruthyNumber(v) == v # None /\ v[1] # 0

TruthyString(v) == v # None /\ v[1] # ""

\* append_type(type_dict, new_type): a new dict whose type field includes
\* new_type exactly once, the field being one name or a list of names; the dict
\* given is left as it is.
append_type(type_dict, new_type) ==
    IF "type" \notin DOMAIN type_dict THEN type_dict
    ELSE LET ty == type_dict.type IN
         IF ty.list
         THEN IF new_type \in Range(ty.vals) THEN type_dict
              ELSE [type_dict EXCEPT !.type = List(Append(ty.vals, new_type))]
         ELSE IF ty.vals[1] = new_type THEN type_dict
              ELSE [type_dict EXCEPT !.type = List(<<ty.vals[1], new_type>>)]

\* Rendering returns a dict and may write into the dict of a Custom node, so each
\* operator below gives both: out, what the call returns, and the helper as the
\* call leaves it (node, prop or wrapped).
RECURSIVE TypeDict(_)
RECURSIVE Property_to_dict(_)
RECURSIVE ObjectType_loop(_, _, _, _)

\* Property.to_dict widening the type whether or not the property is optional.
Property_type_dict_widens_required(p, type_dict) ==
    LET widened == append_type(type_dict, "null")
        withDefault == IF TruthyNumber(p.default)
                       THEN DictUpdate(widened, "default", p.default[1])
                       ELSE widened
    IN IF TruthyString(p.description)
       THEN DictUpdate(withDefault, "description", p.description[1])
       ELSE withDefault

\* Lines 247-253 of Property.to_dict: the dict the property maps its name to.
\* type_dict is self.type_dict, the dict of the wrapped helper itself.
Property_type_dict(p, type_dict) ==
    LET widened == IF p.optional THEN append_type(type_dict, "null") ELSE type_dict
        withDefault == IF TruthyNumber(p.default)
                       THEN DictUpdate(widened, "default", p.default[1])
                       ELSE widened
    IN IF TruthyString(p.description)
       THEN DictUpdate(withDefault, "description", p.description[1])
       ELSE withDefault

\* Property.to_dict.  The two update() calls write into type_dict: when the
\* property is required, that is the very dict the wrapped helper returned, which
\* for a CustomType is the dict it was built with.
Property_to_dict(p) ==
    LET r == TypeDict(p.wrapped)
        td == Property_type_dict(p, r.out)
        node == IF p.wrapped.kind = "custom" /\ ~p.optional
                THEN CustomType(td)
                ELSE r.node
    IN [out |-> (p.name :> td), prop |-> [p EXCEPT !.wrapped = node]]

\* The loop of ObjectType.type_dict over self.wrapped, from index i on.
ObjectType_loop(wrapped, i, merged_props, required) ==
    IF i > Len(wrapped)
    THEN [merged_props |-> merged_props, required |-> required, wrapped |-> wrapped]
    ELSE LET r == Property_to_dict(wrapped[i])
             w == r.prop
         IN ObjectType_loop([wrapped EXCEPT ![i] = w], i + 1,
                            r.out @@ merged_props,
                            IF ~w.optional THEN Append(required, w.name) ELSE required)

\* ObjectType.type_dict setting the "required" key even when the list is empty.
ObjectType_type_dict_always_required(wrapped) ==
    LET l == ObjectType_loop(wrapped, 1, <<>>, <<>>)
        result == [type |-> Scalar("object"), properties |-> l.merged_props]
    IN [out |-> DictUpdate(result, "required", l.required),
        wrapped |-> l.wrapped]

\* ObjectType.type_dict
ObjectType_type_dict(wrapped) ==
    LET l == ObjectType_loop(wrapped, 1, <<>>, <<>>)
        result == [type |-> Scalar("object"), properties |-> l.merged_props]
    IN [out |-> IF l.required # <<>>
                THEN DictUpdate(result, "required", l.required)
                ELSE result,
        wrapped |-> l.wrapped]

\* helper.type_dict for each kind of helper.
TypeDict(node) ==
    CASE node.kind = "string" -> [out |-> StringType_type_dict, node |-> node]
      [] node.kind = "integer" -> [out |-> IntegerType_type_dict, node |-> node]
      [] node.kind = "array" ->
            LET r == TypeDict(node.wrapped_type)
            IN [out |-> [type |-> Scalar("array"), items |-> r.out],
                node |-> ArrayType(r.node)]
      [] node.kind = "object" ->
            LET r == ObjectType_type_dict(node.wrapped)
            IN [out |-> r.out, node |-> ObjectType(r.wrapped)]
      [] node.kind = "custom" -> [out |-> node.raw, node |-> node]

\* The properties a list is built from.
Names == {"a", "b"}

WrappedTypes ==
    {StringType,
     ArrayType(ObjectType(<<Property("id", IntegerType, TRUE, None, None)>>)),
     CustomType([type |-> Scalar("string")]),
     CustomType([type |-> List(<<"string", "null">>)])}

\* default and description: neither, a default that is false in Python, both.
Extras == {<<None, None>>, <<Some(0), None>>, <<Some(1), Some("d")>>}

Properties ==
    {Property(n, w, r, x[1], x[2]) :
        n \in Names, w \in WrappedTypes, r \in BOOLEAN, x \in Extras}

\* PropertiesList(*properties)
InitRender ==
    /\ props \in SeqsUpTo(Properties, MaxCtorProps)
    /\ supplied = props
    /\ rendered = "no"
    /\ firstOut = NoOut
    /\ lastOut = NoOut
    /\ TapIdle
    /\ BridgeIdle

\* PropertiesList.append(property)
PropertiesList_append ==
    \E property \in Properties :
        /\ Len(props) < MaxProps
        /\ props' = Append(props, property)
        /\ supplied' = Append(supplied, property)
        /\ rendered' = "no"
        /\ firstOut' = NoOut
        /\ lastOut' = NoOut
        /\ UNCHANGED <<tapVars, bridgeVars>>

\* PropertiesList.to_dict(), which is JSONTypeHelper.to_dict: the type_dict of
\* the list.  props is what each property's to_dict() returned during the call.
PropertiesList_to_dict ==
    /\ LET r == ObjectType_type_dict(props)
           out == [obj |-> r.out,
                   props |-> [i \in DOMAIN props |-> Property_to_dict(props[i]).out]]
       IN /\ props' = r.wrapped
          /\ lastOut' = out
          /\ firstOut' = IF rendered = "no" THEN out ELSE firstOut
    /\ rendered' = IF rendered = "no" THEN "once" ELSE "again"
    /\ UNCHANGED supplied
    /\ UNCHANGED <<tapVars, bridgeVars>>

NextRender == PropertiesList_append \/ PropertiesList_to_dict

SpecRender == InitRender /\ [][NextRender]_vars

(***************************************************************************)
(* singer_sdk/typing.py: to_jsonschema_type                                *)
(*                                                                         *)
(* A type name is the sequence of its characters, so that "contains" and   *)
(* lower() are computed on the name itself.                                *)
(***************************************************************************)
UpperCase ==
    <<"A", "B", "C", "D", "E", "F", "G", "H", "I", "J", "K", "L", "M",
      "N", "O", "P", "Q", "R", "S", "T", "U", "V", "W", "X", "Y", "Z">>

LowerCase ==
    <<"a", "b", "c", "d", "e", "f", "g", "h", "i", "j", "k", "l", "m",
      "n", "o", "p", "q", "r", "s", "t", "u", "v", "w", "x", "y", "z">>

\* str.lower()
LowerChar(c) ==
    IF \E k \in DOMAIN UpperCase : UpperCase[k] = c
    THEN LowerCase[CHOOSE k \in DOMAIN UpperCase : UpperCase[k] = c]
    ELSE c

Lower(name) == [i \in DOMAIN name |-> LowerChar(name[i])]

\* sub in name
Contains(sub, name) ==
    \E i \in 0..(Len(name) - Len(sub)) : SubSeq(name, i + 1, i + Len(sub)) = sub

timestamp == <<"t", "i", "m", "e", "s", "t", "a", "m", "p">>
datetime == <<"d", "a", "t", "e", "t", "i", "m", "e">>
date == <<"d", "a", "t", "e">>
int == <<"i", "n", "t">>
number == <<"n", "u", "m", "b", "e", "r">>
decimal == <<"d", "e", "c", "i", "m", "a", "l">>
double == <<"d", "o", "u", "b", "l", "e">>
float == <<"f", "l", "o", "a", "t">>
string == <<"s", "t", "r", "i", "n", "g">>
text == <<"t", "e", "x", "t">>
char == <<"c", "h", "a", "r">>
bool == <<"b", "o", "o", "l">>
variant == <<"v", "a", "r", "i", "a", "n", "t">>

\* The same table with "date" ahead of "timestamp" and "datetime".
sqltype_lookup_date_first ==
    <<[sqltype |-> date, jsonschema_type |-> DateType_type_dict],
      [sqltype |-> timestamp, jsonschema_type |-> DateTimeType_type_dict],
      [sqltype |-> datetime, jsonschema_type |-> DateTimeType_type_dict],
      [sqltype |-> int, jsonschema_type |-> IntegerType_type_dict],
      [sqltype |-> number, jsonschema_type |-> NumberType_type_dict],
      [sqltype |-> decimal, jsonschema_type |-> NumberType_type_dict],
      [sqltype |-> double, jsonschema_type |-> NumberType_type_dict],
      [sqltype |-> float, jsonschema_type |-> NumberType_type_dict],
      [sqltype |-> string, jsonschema_type |-> StringType_type_dict],
      [sqltype |-> text, jsonschema_type |-> StringType_type_dict],
      [sqltype |-> char, jsonschema_type |-> StringType_type_dict],
      [sqltype |-> bool, jsonschema_type |-> BooleanType_type_dict],
      [sqltype |-> variant, jsonschema_type |-> StringType_type_dict]>>

\* sqltype_lookup: the mapping, in the order it is written.
sqltype_lookup ==
    <<[sqltype |-> timestamp, jsonschema_type |-> DateTimeType_type_dict],
      [sqltype |-> datetime, jsonschema_type |-> DateTimeType_type_dict],
      [sqltype |-> date, jsonschema_type |-> DateType_type_dict],
      [sqltype |-> int, jsonschema_type |-> IntegerType_type_dict],
      [sqltype |-> number, jsonschema_type |-> NumberType_type_dict],
      [sqltype |-> decimal, jsonschema_type |-> NumberType_type_dict],
      [sqltype |-> double, jsonschema_type |-> NumberType_type_dict],
      [sqltype |-> float, jsonschema_type |-> NumberType_type_dict],
      [sqltype |-> string, jsonschema_type |-> StringType_type_dict],
      [sqltype |-> text, jsonschema_type |-> StringType_type_dict],
      [sqltype |-> char, jsonschema_type |-> StringType_type_dict],
      [sqltype |-> bool, jsonschema_type |-> BooleanType_type_dict],
      [sqltype |-> variant, jsonschema_type |-> StringType_type_dict]>>

\* sqltype_lookup["string"]
sqltype_lookup_string ==
    sqltype_lookup[CHOOSE k \in DOMAIN sqltype_lookup :
                       sqltype_lookup[k].sqltype = string].jsonschema_type

\* The loop over sqltype_lookup.items(), from item i on, and the failover.
RECURSIVE LookupFrom(_, _)
LookupFrom(type_name, i) ==
    IF i > Len(sqltype_lookup) THEN sqltype_lookup_string
    ELSE IF Contains(Lower(sqltype_lookup[i].sqltype), Lower(type_name))
         THEN sqltype_lookup[i].jsonschema_type
         ELSE LookupFrom(type_name, i + 1)

\* to_jsonschema_type(from_type): from_type is a str, a TypeEngine instance or a
\* TypeEngine class, whose name is looked up, or something else.
to_jsonschema_type(ft) ==
    IF ft.kind \in {"str", "TypeEngine", "type"}
    THEN [err |-> "none", dict |-> LookupFrom(ft.name, 1)]
    ELSE [err |-> "ValueError", dict |-> <<>>]

\* What type names are made of: the names of the table, parts of SQL type and
\* class names in either case, and separators.
Fragments ==
    {timestamp, datetime, date, int, number, decimal, double, float, string,
     text, char, bool, variant,
     <<"_", "w", "i", "t", "h", "_", "t", "z">>,
     <<"T", "I", "M", "E">>, <<"S", "T", "A", "M", "P">>, <<"D", "a", "t", "e">>,
     <<"V", "A", "R">>, <<"C", "H", "A", "R">>, <<"B", "I", "G">>,
     <<"I", "N", "T", "E", "G", "E", "R">>, <<"_">>, <<"j", "s", "o", "n">>}

RECURSIVE Concat(_)
Concat(parts) == IF parts = <<>> THEN <<>> ELSE Head(parts) \o Concat(Tail(parts))

TypeNames == {Concat(parts) : parts \in SeqsUpTo(Fragments, MaxParts)}

FromTypes ==
    [kind : {"str", "TypeEngine", "type"}, name : TypeNames]
        \cup {[kind |-> "other", name |-> <<>>]}

InitBridge ==
    /\ from_type \in FromTypes
    /\ jsonschema = NotCalled
    /\ SqlIdle
    /\ TapIdle
    /\ RenderIdle

to_jsonschema_type_call ==
    /\ jsonschema = NotCalled
    /\ jsonschema' = to_jsonschema_type(from_type)
    /\ UNCHANGED <<from_type, schema, sqltype>>
    /\ UNCHANGED <<tapVars, renderVars>>

NextBridge == to_jsonschema_type_call

SpecBridge == InitBridge /\ [][NextBridge]_vars

(***************************************************************************)
(* to_sql_type: from a JSON Schema dict to a sqlalchemy column type        *)
(***************************************************************************)
\* A member of an "anyOf" list: a sub-schema dict, or a bare string.
SubSchema(d) == [str |-> FALSE, schema |-> d]

PlainString(s) == [str |-> TRUE, val |-> s]

\* t in type_check, for a member t of an "anyOf" list: the tuple holds type
\* names, and a dict is equal to no string.
InTypeCheck(t, type_check) == t.str /\ t.val \in type_check

\* jsonschema_type.get("anyOf", ())
GetAnyOf(jsonschema_type) ==
    IF "anyOf" \in DOMAIN jsonschema_type THEN jsonschema_type.anyOf ELSE <<>>

\* The "type" branch reads scalars only.
jsonschema_type_check_scalar_only(jsonschema_type, type_check) ==
    \/ /\ "type" \in DOMAIN jsonschema_type
       /\ ~jsonschema_type.type.list
       /\ jsonschema_type.type.vals[1] \in type_check
    \/ \E i \in DOMAIN GetAnyOf(jsonschema_type) :
           InTypeCheck(GetAnyOf(jsonschema_type)[i], type_check)

jsonschema_type_check(jsonschema_type, type_check) ==
    \/ /\ "type" \in DOMAIN jsonschema_type
       /\ IF jsonschema_type.type.list
          THEN \E i \in DOMAIN jsonschema_type.type.vals :
                   jsonschema_type.type.vals[i] \in type_check
          ELSE jsonschema_type.type.vals[1] \in type_check
    \/ \E i \in DOMAIN GetAnyOf(jsonschema_type) :
           InTypeCheck(GetAnyOf(jsonschema_type)[i], type_check)

DatelikeFormats == {"date-time", "time", "date"}

\* A dict that is typed as a string and carries a date-like format.
is_string_with_format(type_dict) ==
    /\ "type" \in DOMAIN type_dict
    /\ "string" \in Range(type_dict.type.vals)
    /\ "format" \in DOMAIN type_dict
    /\ type_dict.format \in DatelikeFormats

\* The date-like format of the schema itself, else of the first sub-schema
\* of its "anyOf" that has one, else None.
get_datelike_property_type(property_schema) ==
    IF is_string_with_format(property_schema)
    THEN Some(property_schema.format)
    ELSE LET anyOf == GetAnyOf(property_schema)
             hits == {i \in DOMAIN anyOf :
                         /\ ~anyOf[i].str
                         /\ is_string_with_format(anyOf[i].schema)}
         IN  IF hits = {}
             THEN None
             ELSE Some(anyOf[CHOOSE i \in hits : \A j \in hits : i <= j].schema.format)

\* The characters of a format name, for `datelike_type in "time"`.
FormatChars(f) ==
    CASE f = "date-time" -> <<"d", "a", "t", "e", "-", "t", "i", "m", "e">>
      [] f = "time"      -> <<"t", "i", "m", "e">>
      [] f = "date"      -> date

ColumnTypes ==
    {"DATETIME", "TIME", "DATE", "VARCHAR", "INTEGER", "DECIMAL", "BOOLEAN"}

to_sql_type(jsonschema_type) ==
    IF jsonschema_type_check(jsonschema_type, {"string"})
    THEN LET datelike_type == get_datelike_property_type(jsonschema_type)
         IN  IF datelike_type # None /\ datelike_type[1] = "date-time"
             THEN "DATETIME"
             ELSE IF /\ datelike_type # None
                     /\ Contains(FormatChars(datelike_type[1]), <<"t", "i", "m", "e">>)
             THEN "TIME"
             ELSE IF datelike_type # None /\ datelike_type[1] = "date"
             THEN "DATE"
             ELSE "VARCHAR"
    ELSE IF jsonschema_type_check(jsonschema_type, {"integer"}) THEN "INTEGER"
    ELSE IF jsonschema_type_check(jsonschema_type, {"number"}) THEN "DECIMAL"
    ELSE IF jsonschema_type_check(jsonschema_type, {"boolean"}) THEN "BOOLEAN"
    ELSE IF jsonschema_type_check(jsonschema_type, {"object"}) THEN "VARCHAR"
    ELSE IF jsonschema_type_check(jsonschema_type, {"array"}) THEN "VARCHAR"
    ELSE "VARCHAR"

\* The schemas to_sql_type is called on.
TypeKinds ==
    {"string", "integer", "number", "boolean", "object", "array", "null", "geometry"}

Formats == DatelikeFormats \cup {"email"}

TypeValues ==
    {Scalar(k) : k \in TypeKinds}
        \cup {List(ks) : ks \in {s \in SeqsUpTo(TypeKinds, MaxTypes) : NoDup(s)}}

\* {"type": ...}, with or without a "format", and the dicts without a "type".
TypeSchemas ==
    [type : TypeValues] \cup [type : TypeValues, format : Formats]
        \cup {<<>>} \cup [format : Formats]

AnyOfMembers ==
    {SubSchema([type |-> Scalar("integer")]),
     SubSchema([type |-> Scalar("null")]),
     SubSchema([type |-> Scalar("string")]),
     SubSchema([type |-> Scalar("string"), format |-> "date-time"]),
     PlainString("integer")}

\* {"anyOf": [...]}
AnyOfSchemas == [anyOf : SeqsUpTo(AnyOfMembers, MaxAnyOf) \ {<<>>}]

Schemas == TypeSchemas \cup AnyOfSchemas

InitSql ==
    /\ schema \in Schemas
    /\ sqltype = "pending"
    /\ from_type = [kind |-> "str", name |-> <<>>]
    /\ jsonschema = NotCalled
    /\ TapIdle
    /\ RenderIdle

to_sql_type_call ==
    /\ sqltype = "pending"
    /\ sqltype' = to_sql_type(schema)
    /\ UNCHANGED <<schema, from_type, jsonschema>>
    /\ UNCHANGED <<tapVars, renderVars>>

NextSql == to_sql_type_call

SpecSql == InitSql /\ [][NextSql]_vars

(***************************************************************************)
(* Claims about the orchestrator, checked under SpecTap                    *)
(***************************************************************************)
Called(op) == lastOp.op = op /\ lastOp.err = "none"

\* C1: a sync_all() on a tap synchronizes exactly the streams of that tap's
\* catalog, each once, in catalog order, whatever was called before in the
\* process, and no stream that is not in that catalog.
C1_SyncAllInCatalogOrder ==
    Called("sync_all") => lastOp.ids = CatalogIds(catalog[lastOp.tap].streams)

\* C2: on a tap whose streams are initialized, sync_one(stream_id) with an id
\* that is not a stream of the tap's catalog fails with the unknown-stream
\* error, synchronizes no stream, and leaves every stream's runtime and bookmark
\* state exactly as it was before the call.
C2_UnknownStreamLeavesState ==
    [][(/\ lastOp'.op = "sync_one"
        /\ catalog[lastOp'.tap].loaded
        /\ lastOp'.arg \notin Range(CatalogIds(catalog[lastOp'.tap].streams)))
       => (/\ lastOp'.err = "KeyError"
           /\ lastOp'.ids = <<>>
           /\ streams' = streams)]_vars

\* C3: every tap owns its stream map: the stream ids a tap returns from
\* get_all_stream_ids or get_streams are exactly those of its own catalog, and a
\* call on another tap never adds, replaces or removes an entry in its map.
C3_InstanceOwnedStreams ==
    /\ [](\A op \in {"get_all_stream_ids", "get_streams"} :
            Called(op) => Range(lastOp.ids) =
                            Range(CatalogIds(catalog[lastOp.tap].streams)))
    /\ [][\A a \in Taps : lastOp'.tap # a => self_streams(a)' = self_streams(a)]_vars

\* C4: a runtime is created once and cached: once a tap's catalog is set, no
\* later call on the tap replaces a runtime, so the bookmark a runtime has
\* accumulated is still there after the call.
C4_RuntimeCached ==
    [][catalog[lastOp'.tap].loaded =>
          \A i \in DOMAIN streams :
              /\ DictHas(streams', streams[i].key)
              /\ DictGet(streams', streams[i].key).bookmark >= streams[i].rt.bookmark]_vars

\* The runtimes the stream map holds for catalog entry e.
RuntimesOf(e) ==
    {i \in DOMAIN streams : streams[i].key = e.tap_stream_id /\ streams[i].rt.entry = e}

\* C5: once a tap's streams are initialized, there is exactly one runtime per
\* selected entry of its catalog and none for an entry that is not selected, and
\* sync_all visits no entry that is not selected.
C5_OneRuntimePerSelectedEntry ==
    (lastOp.op # "none" /\ lastOp.err = "none") =>
        LET cat == catalog[lastOp.tap].streams IN
        \A i \in DOMAIN cat :
            /\ Cardinality(RuntimesOf(cat[i])) = (IF cat[i].selected THEN 1 ELSE 0)
            /\ (lastOp.op = "sync_all" /\ ~cat[i].selected)
                   => cat[i].tap_stream_id \notin Range(lastOp.ids)

\* C6: the runtime built for a stream starts with the bookmark the persisted
\* state given to the constructor has for the stream, and with the empty state
\* when the persisted state has none.
C6_RuntimeStartsFromPersistedState ==
    \A i \in DOMAIN streams, t \in Taps :
        streams[i].rt.initial = init_state[t][streams[i].key]

(***************************************************************************)
(* Claims about rendering, checked under SpecRender                        *)
(***************************************************************************)
\* How many times "null" occurs in a type field.
NullCount(ty) == Cardinality({k \in DOMAIN ty.vals : ty.vals[k] = "null"})

\* The dict the last to_dict() call of property i mapped its name to.
Rendered(i) == lastOut.props[i][props[i].name]

\* The type field of the wrapped helper of property i as it was supplied.
SuppliedType(i) == TypeDict(supplied[i].wrapped).out.type

C8_RenderIsPure == props = supplied

\* The names of the required properties among ps, in order.
RequiredNames(ps) ==
    LET req == SelectSeq(ps, LAMBDA q : ~q.optional)
    IN [i \in DOMAIN req |-> req[i].name]

PropertyNames(ps) == [i \in DOMAIN ps |-> ps[i].name]

\* C9: for a list whose property names are unique, the rendered "required" list
\* is exactly the names of the required properties in insertion order,
\* properties added by append included, and the key is absent when no property
\* is required.
C9_RequiredList ==
    (rendered # "no" /\ NoDup(PropertyNames(supplied))) =>
        IF RequiredNames(supplied) = <<>>
        THEN "required" \notin DOMAIN lastOut.obj
        ELSE /\ "required" \in DOMAIN lastOut.obj
             /\ lastOut.obj.required = RequiredNames(supplied)

\* C9 happens: a required property was appended after a required property of
\* another name, and the list rendered.
C9_Witness ==
    /\ rendered # "no"
    /\ Len(supplied) > MaxCtorProps
    /\ NoDup(PropertyNames(supplied))
    /\ \A i \in DOMAIN supplied : ~supplied[i].optional
    /\ lastOut.obj.required = <<"b", "a">>

\* The "required" key is absent: a rendered list with no required property.
C9_WitnessAbsent ==
    /\ rendered # "no"
    /\ Len(supplied) = 2
    /\ RequiredNames(supplied) = <<>>

(***************************************************************************)
(* Claims about to_jsonschema_type, checked under SpecBridge               *)
(***************************************************************************)
\* The lowercased name passed to to_jsonschema_type contains one of subs.
HasAny(subs) == \E sub \in subs : Contains(sub, Lower(from_type.name))

CalledOnStr == from_type.kind = "str" /\ jsonschema # NotCalled

\* C10: on a string type name, to_jsonschema_type returns the schema of the
\* first entry of this ordered table that occurs in the lowercased name:
\* timestamp/datetime -> DateTime, date -> Date, int -> Integer,
\* number/decimal/double/float -> Number, string/text/char/variant -> String,
\* bool -> Boolean; and String when no entry occurs.
C10_SpecTable ==
    CalledOnStr =>
        /\ jsonschema.err = "none"
        /\ jsonschema.dict =
              IF HasAny({timestamp, datetime}) THEN DateTimeType_type_dict
              ELSE IF HasAny({date}) THEN DateType_type_dict
              ELSE IF HasAny({int}) THEN IntegerType_type_dict
              ELSE IF HasAny({number, decimal, double, float}) THEN NumberType_type_dict
              ELSE IF HasAny({string, text, char, variant}) THEN StringType_type_dict
              ELSE IF HasAny({bool}) THEN BooleanType_type_dict
              ELSE StringType_type_dict

\* C10, amended: the same with "variant" after "bool": timestamp/datetime ->
\* DateTime, date -> Date, int -> Integer, number/decimal/double/float -> Number,
\* string/text/char -> String, bool -> Boolean, variant -> String; and String
\* when no entry occurs.  A name containing "timestamp" or "datetime" maps to
\* DateTime, never to Date.
C10_CodeTable ==
    CalledOnStr =>
        /\ jsonschema.err = "none"
        /\ jsonschema.dict =
              IF HasAny({timestamp, datetime}) THEN DateTimeType_type_dict
              ELSE IF HasAny({date}) THEN DateType_type_dict
              ELSE IF HasAny({int}) THEN IntegerType_type_dict
              ELSE IF HasAny({number, decimal, double, float}) THEN NumberType_type_dict
              ELSE IF HasAny({string, text, char}) THEN StringType_type_dict
              ELSE IF HasAny({bool}) THEN BooleanType_type_dict
              ELSE StringType_type_dict
        /\ HasAny({timestamp, datetime}) => jsonschema.dict # DateType_type_dict

\* C10 happens: "timestamp_with_tz" was converted, to DateTime.
C10_Witness ==
    /\ CalledOnStr
    /\ from_type.name = timestamp \o <<"_", "w", "i", "t", "h", "_", "t", "z">>
    /\ jsonschema.dict = DateTimeType_type_dict

(***************************************************************************)
(* Claims about to_sql_type, checked under SpecSql                         *)
(***************************************************************************)
SqlCalled == sqltype # "pending"

\* The column type of a field declared with the type names `kinds` and the
\* optional format `fmt`, by the classification order: string with a
\* date-like format, string, integer, number, boolean, object or array,
\* anything else.
Classified(kinds, fmt) ==
    IF "string" \in kinds
    THEN CASE fmt = Some("date-time") -> "DATETIME"
           [] fmt = Some("date")      -> "DATE"
           [] fmt = Some("time")      -> "TIME"
           [] OTHER                   -> "VARCHAR"
    ELSE IF "integer" \in kinds THEN "INTEGER"
    ELSE IF "number" \in kinds THEN "DECIMAL"
    ELSE IF "boolean" \in kinds THEN "BOOLEAN"
    ELSE "VARCHAR"

\* The schema declares its kinds as an "anyOf" list of sub-schemas.
AnyOfOfSubSchemas ==
    /\ "anyOf" \in DOMAIN schema
    /\ \A i \in DOMAIN schema.anyOf : ~schema.anyOf[i].str

\* The type names the sub-schemas of the "anyOf" list declare.
AnyOfKinds ==
    UNION {Range(schema.anyOf[i].schema.type.vals) : i \in DOMAIN schema.anyOf}

\* The format of the first sub-schema of the "anyOf" list that carries one.
AnyOfFormat ==
    LET with == {i \in DOMAIN schema.anyOf : "format" \in DOMAIN schema.anyOf[i].schema}
    IN  IF with = {}
        THEN None
        ELSE Some(schema.anyOf[CHOOSE i \in with : \A j \in with : i <= j].schema.format)

\* C11: a schema that declares its kinds as an "anyOf" list of sub-schemas
\* gets the column type that the same kinds and format get when declared as
\* a scalar or a list: {"anyOf":[{"type":"integer"},{"type":"null"}]} gives
\* INTEGER, {"anyOf":[{"type":"string","format":"date-time"},{"type":"null"}]}
\* gives DATETIME.
C11_AnyOfClassifiedAsDeclared ==
    (SqlCalled /\ AnyOfOfSubSchemas) => sqltype = Classified(AnyOfKinds, AnyOfFormat)

\* The type names a schema declares in its "type", scalar or list.
DeclaredKinds == IF "type" \in DOMAIN schema THEN Range(schema.type.vals) ELSE {}

DeclaredFormat == IF "format" \in DOMAIN schema THEN Some(schema.format) ELSE None

\* C12: on a schema whose type is a bare scalar or a list of scalars, or is
\* missing, to_sql_type returns the column type of the classification order:
\* a string with format date-time, date or time gives DATETIME, DATE or TIME,
\* a string with another or no format gives VARCHAR, otherwise integer gives
\* INTEGER, number DECIMAL, boolean BOOLEAN, and object, array, an unknown
\* type or no type give VARCHAR; and on every schema the result is one of
\* the seven column types.
C12_ClassificationOrderTotal ==
    SqlCalled =>
        /\ sqltype \in ColumnTypes
        /\ "anyOf" \notin DOMAIN schema =>
               sqltype = Classified(DeclaredKinds, DeclaredFormat)

\* {"type": ["string", "null"], "format": "date"} has been classified as DATE.
C12_Witness ==
    /\ schema = [type |-> List(<<"string", "null">>), format |-> "date"]
    /\ sqltype = "DATE"

====
